---- MODULE Spec2Model ----
(***************************************************************************)
(* A model of the vacel front end: the literal classifier and the          *)
(* expression parser with its implicit-concatenation loop, the expression  *)
(* printers, the statement-list printer with its line counter, and the     *)
(* traversal that the instrumentation pass uses to splice statements.      *)
(*                                                                         *)
(* Text is modelled as a sequence of tokens (expressions) or as a sequence *)
(* of line atoms and newlines (statement lists); characters of a numeric   *)
(* token are modelled one by one.                                          *)
(***************************************************************************)
EXTENDS Integers, Sequences, FiniteSets, TLC

VARIABLES
    litToken,    \* parseLiteral: the token handed to it
    litResult,   \* parseLiteral: what it returned or threw ("pending" before)
    litPrinted,  \* the text printed from the literal node parseLiteral returned
    tokens,      \* parseExpr: the token stream of the parser
    parser,      \* parseExpr: the parser's cursor (cur), parseExpr's locals
                 \* (backup, buf, nextToken) and its position (pc)
    exprResult,  \* parseExpr: what it returned or threw
    exprLoc,     \* parseExpr: the node started by p.startNode(), with its location
    printed,     \* the tokens of the printed expression
    reparsed,    \* the result of parsing `printed` again
    source,      \* the source text of a program (atoms and newlines)
    ast,         \* the program tree (statements) being rewritten and printed
    walk,        \* traverse: the paths still to visit and the paths visited
    out,         \* the text printed from `ast` (line atoms and newlines)
    ast2,        \* the tree parsed again from `out`
    out2,        \* the text printed from `ast2`
    pc,          \* the stage of the parse / rewrite / print pipeline
    subject,     \* a node handed to a printer, and the options of the call
    rendering,   \* what the printers returned for `subject`
    jobs         \* two print operations in progress: of each its statements, the
                 \* statement it prints next, its document so far, and the
                 \* line counters (state.lineNum) of the calls

litVars  == <<litToken, litResult, litPrinted>>
exprVars == <<tokens, parser, exprResult, exprLoc, printed, reparsed>>
pipeVars == <<source, ast, walk, out, ast2, out2, pc>>
nodeVars == <<subject, rendering>>
jobVars  == <<jobs>>
vars     == <<litToken, litResult, litPrinted, tokens, parser, exprResult, exprLoc, printed,
              reparsed, source, ast, walk, out, ast2, out2, pc, subject, rendering, jobs>>

(***************************************************************************)
(* Bounds of the model.                                                    *)
(***************************************************************************)
MaxTokLen == 3
MaxToks == 4
MaxSrcLen == 5
MaxDepth == 2
MaxBody == 2
MaxGap == 3
MaxChain == 3
MaxCidr == 2

\* all sequences over S of length 0..n
RECURSIVE SeqsUpTo(_, _)
SeqsUpTo(S, n) ==
    IF n = 0 THEN {<<>>}
    ELSE LET shorter == SeqsUpTo(S, n - 1)
         IN  shorter \cup {Append(s, x) : s \in {t \in shorter : Len(t) = n - 1}, x \in S}

Idle == [pc |-> "idle"]

(***************************************************************************)
(* parseLiteral                                                            *)
(***************************************************************************)
Digits == {"0", "3", "5"}
\* the characters numeric token texts are drawn from: digits, the point, the
\* letters of the unit suffixes and one letter of no suffix
Chars == Digits \cup {".", "m", "s", "h", "d", "y", "k"}

EndsWith(s, suf) ==
    /\ Len(s) >= Len(suf)
    /\ SubSeq(s, Len(s) - Len(suf) + 1, Len(s)) = suf

\* /(ms|s|m|h|d|y)$/.test(value)
EndsInUnit(s) ==
    \E suf \in {<<"m", "s">>, <<"s">>, <<"m">>, <<"h">>, <<"d">>, <<"y">>} :
        EndsWith(s, suf)

\* Number.isNaN(Number(value)) for a text over Chars: the empty text is 0, and
\* otherwise the text is a number iff it holds digits and at most one point,
\* with at least one digit
NumberIsNaN(s) ==
    /\ s # <<>>
    /\ \/ \E i \in 1..Len(s) : s[i] \notin Digits \cup {"."}
       \/ Cardinality({i \in 1..Len(s) : s[i] = "."}) > 1
       \/ \A i \in 1..Len(s) : s[i] \notin Digits

SyntaxError(msg) == [type |-> "SyntaxError", message |-> msg]
\* a literal node whose value lost the quotes of a string
LiteralUnquoted(type, value) ==
    [type |-> type,
     value |-> IF type = "StringLiteral" THEN SubSeq(value, 2, Len(value) - 1) ELSE value]
Literal(type, value) == [type |-> type, value |-> value]
Null == [type |-> "null"]

\* the leading-zero test of a plain number
LeadingZeroNoLengthTest(s) == s # <<>> /\ s[1] = "0"
LeadingZero(s) == Len(s) # 1 /\ s # <<>> /\ s[1] = "0"

parseLiteral(token) ==
    IF token.type = "boolean" THEN Literal("BooleanLiteral", token.value)
    ELSE IF token.type = "string" THEN Literal("StringLiteral", token.value)
    ELSE IF token.type = "numeric" THEN
        IF EndsInUnit(token.value) THEN Literal("DurationLiteral", token.value)
        ELSE IF ~NumberIsNaN(token.value) THEN
            IF LeadingZero(token.value) THEN SyntaxError("invalid number")
            ELSE Literal("NumericLiteral", token.value)
        ELSE SyntaxError("invalid token")
    ELSE Null

\* the print methods of the five literal classes
printLiteral(lit) ==
    CASE lit.type = "BooleanLiteral" -> lit.value
      [] lit.type = "StringLiteral" -> lit.value
      [] lit.type = "MultilineLiteral" -> lit.value
      [] lit.type = "DurationLiteral" -> lit.value
      [] lit.type = "NumericLiteral" -> lit.value

\* printBooleanLiteral .. printNumericLiteral of the function printers
printLiteralNode(lit) ==
    CASE lit.type = "BooleanLiteral" -> lit.value
      [] lit.type = "StringLiteral" -> lit.value
      [] lit.type = "MultilineLiteral" -> lit.value
      [] lit.type = "DurationLiteral" -> lit.value
      [] lit.type = "NumericLiteral" -> lit.value

LiteralTypes ==
    {"BooleanLiteral", "StringLiteral", "MultilineLiteral", "DurationLiteral",
     "NumericLiteral"}

\* the tokens handed to parseLiteral: every numeric text up to MaxTokLen
\* characters, and a few tokens of the other kinds
LitTokens ==
    {[type |-> "numeric", value |-> v] : v \in SeqsUpTo(Chars, MaxTokLen) \ {<<>>}}
    \cup {[type |-> "boolean", value |-> v] : v \in {<<"t">>, <<"f">>}}
    \cup {[type |-> "string", value |-> v] : v \in {<<"q", "k", "q">>, <<"q", "q">>}}
    \cup {[type |-> "ident", value |-> v] : v \in {<<"k">>, <<"s">>}}

(***************************************************************************)
(* Tokens and the parser's cursor.  The cursor counts the tokens consumed; *)
(* the token just read is tokens[cur].                                     *)
(***************************************************************************)
Tok(type, value) == [type |-> type, value |-> value]
StrA   == Tok("string", "\"a\"")
IdX    == Tok("ident", "x")
Plus   == Tok("symbol", "+")
Semi   == Tok("symbol", ";")
LParen == Tok("symbol", "(")
RParen == Tok("symbol", ")")
OpEq   == Tok("operator", "==")
OpAnd  == Tok("operator", "&&")
OpOr   == Tok("operator", "||")

\* p.peek(): the index of the next token, 0 for none
Peek(toks, cur) == IF cur < Len(toks) THEN cur + 1 ELSE 0

\* what a parse function hands back: a node and the cursor, or a SyntaxError
Ok(node, cur) == [ok |-> TRUE, node |-> node, cur |-> cur]
Throw(cur) == [ok |-> FALSE, node |-> Null, cur |-> cur]

Identifier(name) == [type |-> "Identifier", name |-> name]
BooleanExpression(body) == [type |-> "BooleanExpression", body |-> body]
ConcatExpression(body) == [type |-> "ConcatExpression", body |-> body]
BinaryExpression(left, operator, right) ==
    [type |-> "BinaryExpression", left |-> left, right |-> right, operator |-> operator]
LogicalExpression(left, operator, right) ==
    [type |-> "LogicalExpression", left |-> left, right |-> right, operator |-> operator]

\* the precedence table: || binds loosest, then &&, then the comparisons
Prec(op) == IF op = "||" THEN 1 ELSE IF op = "&&" THEN 2 ELSE 3
OperatorNode(left, op, right) ==
    IF op \in {"&&", "||"} THEN LogicalExpression(left, op, right)
    ELSE BinaryExpression(left, op, right)

\* parseExpr's result once the loop is left: the plain expression when nothing
\* was accumulated after it, a ConcatExpression otherwise
AlwaysConcat(buf) == ConcatExpression(buf)
ExprOrConcat(buf) == IF Len(buf) = 1 THEN buf[1] ELSE ConcatExpression(buf)

RECURSIVE parseHumbleExpr(_, _), ParseBinary(_, _, _), Climb(_, _, _, _),
          parseExprRead(_, _), parseExprTok(_, _), ConcatIter(_, _), ConcatLoop(_, _)

\* parseHumbleExpr(p, token) with token = toks[cur]: a literal, an identifier
\* or a parenthesised expression; anything else is a SyntaxError
parseHumbleExpr(toks, cur) ==
    LET token == toks[cur]
        lit == parseLiteral(token)
    IN  IF lit.type = "SyntaxError" THEN Throw(cur)
        ELSE IF lit # Null THEN Ok(lit, cur)
        ELSE IF token.type = "ident" THEN Ok(Identifier(token.value), cur)
        ELSE IF token = LParen THEN
            LET body == parseExprRead(toks, cur)
            IN  IF ~body.ok THEN body
                ELSE IF Peek(toks, body.cur) # 0 /\ toks[body.cur + 1] = RParen
                     THEN Ok(BooleanExpression(body.node), body.cur + 1)
                     ELSE Throw(body.cur)
        ELSE Throw(cur)

\* the precedence-climbing loop of parseOperatorExpr, after operand `left`
Climb(toks, left, cur, minPrec) ==
    LET nx == Peek(toks, cur)
    IN  IF nx = 0 THEN Ok(left, cur)
        ELSE IF toks[nx].type # "operator" \/ Prec(toks[nx].value) < minPrec
             THEN Ok(left, cur)
        ELSE IF cur + 1 >= Len(toks) THEN Throw(cur + 1)
        ELSE LET rhs == ParseBinary(toks, cur + 2, Prec(toks[nx].value) + 1)
             IN  IF ~rhs.ok THEN rhs
                 ELSE Climb(toks, OperatorNode(left, toks[nx].value, rhs.node),
                            rhs.cur, minPrec)

ParseBinary(toks, cur, minPrec) ==
    LET lhs == parseHumbleExpr(toks, cur)
    IN  IF ~lhs.ok THEN lhs ELSE Climb(toks, lhs.node, lhs.cur, minPrec)

parseOperatorExpr(toks, cur) == ParseBinary(toks, cur, 1)

\* the cursor parseExpr leaves the parser at: p.jumpTo(backup)
ReturnCursorWhereLeft(st) == st.cur
ReturnCursor(st) == st.backup

\* an attempt that does not save the cursor after a member
AttemptKeepBackup(toks, st, cur) ==
    LET r == parseHumbleExpr(toks, cur)
    IN  IF r.ok
        THEN [cur |-> r.cur, backup |-> st.backup, buf |-> Append(st.buf, r.node),
              nextToken |-> Peek(toks, r.cur), pc |-> "loop"]
        ELSE [st EXCEPT !.cur = r.cur, !.pc = "break"]

\* the speculative attempt of the concatenation loop: the try block and its
\* catch, with nextToken = toks[cur]
Attempt(toks, st, cur) ==
    LET r == parseHumbleExpr(toks, cur)
    IN  IF r.ok
        THEN [cur |-> r.cur, backup |-> r.cur, buf |-> Append(st.buf, r.node),
              nextToken |-> Peek(toks, r.cur), pc |-> "loop"]
        ELSE [st EXCEPT !.cur = r.cur, !.pc = "break"]

\* one iteration of `while (nextToken)`
ConcatIter(toks, st) ==
    LET cur1 == st.cur + 1
    IN  IF toks[st.nextToken] = Semi THEN [st EXCEPT !.cur = cur1, !.pc = "break"]
        ELSE IF toks[st.nextToken] = Plus THEN
            IF cur1 >= Len(toks)
            THEN [st EXCEPT !.cur = cur1, !.pc = "throw"]
            ELSE Attempt(toks, st, cur1 + 1)
        ELSE Attempt(toks, st, cur1)

ConcatLoop(toks, st) ==
    IF st.pc # "loop" \/ st.nextToken = 0 THEN st
    ELSE ConcatLoop(toks, ConcatIter(toks, st))

\* the state of parseExpr when it enters the loop after its first expression
LoopEntry(toks, first) ==
    [cur |-> first.cur, backup |-> first.cur, buf |-> <<first.node>>,
     nextToken |-> Peek(toks, first.cur), pc |-> "loop"]

\* parseExpr(p, token) with token = toks[cur], not shortcut
parseExprTok(toks, cur) ==
    LET first == parseOperatorExpr(toks, cur)
    IN  IF ~first.ok THEN first
        ELSE IF toks[cur] = Semi THEN first
        ELSE LET st == ConcatLoop(toks, LoopEntry(toks, first))
             IN  IF st.pc = "throw" THEN Throw(st.cur)
                 ELSE Ok(ExprOrConcat(st.buf), ReturnCursor(st))

\* parseExpr(p): the token defaults to p.read(), which throws at the end
parseExprRead(toks, cur) ==
    IF cur >= Len(toks) THEN Throw(cur) ELSE parseExprTok(toks, cur + 1)

(***************************************************************************)
(* The expression printers, as the tokens of the text they render (the     *)
(* line breaks and spaces of the document are white space to the lexer).   *)
(***************************************************************************)
RECURSIVE printExpr(_)
RECURSIVE JoinPrinted(_)
JoinPrinted(nodes) ==
    IF nodes = <<>> THEN <<>> ELSE printExpr(Head(nodes)) \o JoinPrinted(Tail(nodes))

Parens(toks) == <<LParen>> \o toks \o <<RParen>>

\* BinaryExpression.print: the left operand in parentheses iff it is binary
BinaryLeftNeverWrapped(node) == printExpr(node.left)
BinaryLeft(node) ==
    IF node.left.type = "BinaryExpression"
    THEN Parens(printExpr(node.left)) ELSE printExpr(node.left)

\* an operand printer that wraps every nested logical expression
LogicalOperandAnyNested(node, operand) ==
    IF operand.type = "LogicalExpression"
    THEN Parens(printExpr(operand)) ELSE printExpr(operand)
\* LogicalExpression.print: an operand in parentheses iff it is && under ||
LogicalOperand(node, operand) ==
    IF operand.type = "LogicalExpression" /\ node.operator = "||"
       /\ operand.operator = "&&"
    THEN Parens(printExpr(operand)) ELSE printExpr(operand)

printExpr(node) ==
    CASE node.type = "StringLiteral" -> <<Tok("string", node.value)>>
      [] node.type = "Identifier" -> <<Tok("ident", node.name)>>
      [] node.type = "BooleanExpression" -> Parens(printExpr(node.body))
      [] node.type = "ConcatExpression" -> JoinPrinted(node.body)
      [] node.type = "BinaryExpression" ->
            BinaryLeft(node) \o <<Tok("operator", node.operator)>> \o printExpr(node.right)
      [] node.type = "LogicalExpression" ->
            LogicalOperand(node, node.left) \o <<Tok("operator", node.operator)>>
                \o LogicalOperand(node, node.right)

(***************************************************************************)
(* parseExpr as steps: entry with the first expression, one step per       *)
(* iteration of the concatenation loop, the return; then the printer and a *)
(* second parse of the printed text.                                       *)
(***************************************************************************)
ExprAlphabet == {StrA, IdX, Plus, Semi, LParen, RParen, OpEq}
OpAlphabet == {IdX, OpEq, OpAnd, OpOr, LParen, RParen}

\* p.startNode(): a node whose location starts at the current token
startNode(cur) == [start |-> cur, end |-> cur, finished |-> FALSE]
\* p.finishNode(..): the location ends at the current token
finishNode(n, cur) == [n EXCEPT !.end = cur, !.finished = TRUE]

ParserStart ==
    [cur |-> 0, backup |-> 0, buf |-> <<>>, nextToken |-> 0, pc |-> "start"]

\* token = p.read(); expr = parseOperatorExpr(p, token); backup, buf, nextToken
ParseExprEnter ==
    /\ parser # Idle /\ parser.pc = "start"
    /\ LET first == IF tokens = <<>> THEN Throw(0) ELSE parseOperatorExpr(tokens, 1)
       IN  /\ IF ~first.ok
              THEN /\ exprResult' = first
                   /\ parser' = [parser EXCEPT !.cur = first.cur, !.pc = "done"]
              ELSE IF tokens[1] = Semi
              THEN /\ exprResult' = first
                   /\ parser' = [parser EXCEPT !.cur = first.cur, !.pc = "done"]
              ELSE /\ exprResult' = exprResult
                   /\ parser' = LoopEntry(tokens, first)
           \* const node = p.startNode(), after the first expression
           /\ exprLoc' = IF first.ok THEN startNode(first.cur) ELSE exprLoc
    /\ UNCHANGED <<tokens, printed, reparsed, litVars, pipeVars, nodeVars, jobVars>>

\* one iteration of the while loop
ConcatStep ==
    /\ parser # Idle /\ parser.pc = "loop" /\ parser.nextToken # 0
    /\ parser' = ConcatIter(tokens, parser)
    /\ UNCHANGED <<tokens, exprResult, exprLoc, printed, reparsed, litVars, pipeVars, nodeVars, jobVars>>

\* the loop is left: p.jumpTo(backup) and the return
ParseExprReturn ==
    /\ parser # Idle
    /\ \/ parser.pc = "loop" /\ parser.nextToken = 0
       \/ parser.pc = "break"
    /\ exprResult' = Ok(ExprOrConcat(parser.buf), ReturnCursor(parser))
    /\ parser' = [parser EXCEPT !.cur = ReturnCursor(parser), !.pc = "done"]
    /\ exprLoc' = IF Len(parser.buf) = 1 THEN exprLoc
                  ELSE finishNode(exprLoc, ReturnCursor(parser))
    /\ UNCHANGED <<tokens, printed, reparsed, litVars, pipeVars, nodeVars, jobVars>>

\* a SyntaxError raised outside the try block leaves parseExpr
ParseExprThrow ==
    /\ parser # Idle /\ parser.pc = "throw"
    /\ exprResult' = Throw(parser.cur)
    /\ parser' = [parser EXCEPT !.pc = "done"]
    /\ UNCHANGED <<tokens, exprLoc, printed, reparsed, litVars, pipeVars, nodeVars, jobVars>>

\* the whole text was one expression: print the tree
PrintExpr ==
    /\ parser # Idle /\ parser.pc = "done"
    /\ exprResult.ok /\ exprResult.cur = Len(tokens)
    /\ printed' = printExpr(exprResult.node)
    /\ parser' = [parser EXCEPT !.pc = "printed"]
    /\ UNCHANGED <<tokens, exprResult, exprLoc, reparsed, litVars, pipeVars, nodeVars, jobVars>>

\* parse the printed text
ReparseExpr ==
    /\ parser # Idle /\ parser.pc = "printed"
    /\ reparsed' = parseExprRead(printed, 0)
    /\ parser' = [parser EXCEPT !.pc = "reparsed"]
    /\ UNCHANGED <<tokens, exprResult, exprLoc, printed, litVars, pipeVars, nodeVars, jobVars>>

(***************************************************************************)
(* Statement trees.  A node is a record with its type tag, its location    *)
(* (statements) and its fields; a path is the sequence of child slots      *)
(* <<field, index>> from the Program down to a node, index 0 for a field   *)
(* that holds one node.                                                    *)
(***************************************************************************)
NL == "\n"
LongText == "\"long\""     \* a literal too wide for the print width
LongName == "long"         \* an identifier too wide for the print width

Loc(startOffset, startLine, endOffset, endLine) ==
    [start |-> [offset |-> startOffset, line |-> startLine],
     end |-> [offset |-> endOffset, line |-> endLine]]
NoLoc == Loc(0, 0, 0, 0)   \* `loc` is undefined
HasLoc(node) == node.loc # NoLoc

StringLiteral(value) == [type |-> "StringLiteral", value |-> value]
Member(base, member) == [type |-> "Member", base |-> base, member |-> member]
Program(body) == [type |-> "Program", body |-> body]
RestartStatement(loc) == [type |-> "RestartStatement", loc |-> loc]
SetStatement(loc, left, right) ==
    [type |-> "SetStatement", loc |-> loc, left |-> left, right |-> right, operator |-> "="]
AddStatement(loc, left, right) ==
    [type |-> "AddStatement", loc |-> loc, left |-> left, right |-> right, operator |-> "="]
SubroutineStatement(loc, id, body) ==
    [type |-> "SubroutineStatement", loc |-> loc, id |-> id, body |-> body]
\* alternative: undefined, an IfStatement, or an array of statements
Undefined == [type |-> "undefined"]
Array(items) == [type |-> "Array", items |-> items]
IfStatement(loc, test, consequent, alternative) ==
    [type |-> "IfStatement", loc |-> loc, test |-> test, consequent |-> consequent,
     alternative |-> alternative]

\* Object.values(node): the own fields of a node in the order its class
\* assigns them
ObjectValues(node) ==
    CASE node.type = "Program" -> <<"type", "body">>
      [] node.type = "SubroutineStatement" -> <<"type", "id", "body", "loc">>
      [] node.type = "IfStatement" ->
            <<"type", "test", "consequent", "alternative", "loc">>
      [] node.type \in {"SetStatement", "AddStatement"} ->
            <<"type", "left", "right", "operator", "loc">>
      [] node.type = "Member" -> <<"type", "base", "member">>
      [] node.type = "Identifier" -> <<"type", "name">>
      [] node.type = "StringLiteral" -> <<"type", "value">>
      [] OTHER -> <<"type", "loc">>

\* Array.isArray(node[f])
IsArrayField(node, f) ==
    \/ f \in {"body", "consequent"}
    \/ f = "alternative" /\ node.alternative.type = "Array"

\* node[f] instanceof BaseNode
IsNodeField(node, f) ==
    \/ f \in {"id", "test", "left", "right", "base", "member"}
    \/ f = "alternative" /\ node.alternative.type = "IfStatement"

\* the elements of the array node[f]
Items(node, f) == IF f = "alternative" THEN node.alternative.items ELSE node[f]

\* the filter of next(): the fields that hold an array or a node
KeepNodesOnly(node, f) == IsNodeField(node, f)
KeepChildren(node, f) == IsArrayField(node, f) \/ IsNodeField(node, f)

RECURSIVE flatBackwards(_, _)
\* a flattening that spreads every array from its last element to its first
flatBackwards(node, fields) ==
    IF fields = <<>> THEN <<>>
    ELSE LET f == Head(fields)
             n == IF IsArrayField(node, f) THEN Len(Items(node, f)) ELSE 0
             slots == IF IsArrayField(node, f)
                      THEN [i \in 1..n |-> <<f, n + 1 - i>>]
                      ELSE <<<<f, 0>>>>
         IN  slots \o flatBackwards(node, Tail(fields))

\* flat(): the child slots of the kept fields, arrays spread in array order
RECURSIVE flat(_, _)
flat(node, fields) ==
    IF fields = <<>> THEN <<>>
    ELSE LET f == Head(fields)
             slots == IF IsArrayField(node, f)
                      THEN [i \in 1..Len(Items(node, f)) |-> <<f, i>>]
                      ELSE <<<<f, 0>>>>
         IN  slots \o flat(node, Tail(fields))

\* BaseNode.next(): the child slots of a node, in order
next(node) ==
    flat(node, SelectSeq(ObjectValues(node), LAMBDA f : KeepChildren(node, f)))

Child(node, slot) ==
    IF slot[2] = 0 THEN node[slot[1]] ELSE Items(node, slot[1])[slot[2]]

RECURSIVE GetAt(_, _)
GetAt(node, path) ==
    IF path = <<>> THEN node ELSE GetAt(Child(node, Head(path)), Tail(path))

(***************************************************************************)
(* The instrumentation pass: its entry callback.                           *)
(***************************************************************************)
variable(obj) ==
    Member(Member(Identifier(obj), Identifier("http")), Identifier("Branch-Log"))

\* array.unshift(item)
Push(array, item) == Append(array, item)
Unshift(array, item) == <<item>> \o array

\* entry({ node }): a logging statement at the head of a subroutine body or
\* of a conditional's consequent
Entry(node) ==
    IF node.type = "SubroutineStatement" THEN
        LET loggerNode ==
                IF node.id.name = "vcl_deliver"
                THEN SetStatement(NoLoc, variable("resp"), StringLiteral("std.collect(std)"))
                ELSE AddStatement(NoLoc, variable("req"), StringLiteral(node.id.name))
        IN  [node EXCEPT !.body = Unshift(node.body, loggerNode)]
    ELSE IF node.type = "IfStatement" THEN
        LET loggerNode ==
                AddStatement(NoLoc, variable("req"),
                    StringLiteral(IF HasLoc(node)
                                  THEN ToString(node.loc.start.line) \o ":"
                                           \o ToString(node.loc.start.offset)
                                  ELSE "synthethic"))
        IN  [node EXCEPT !.consequent = Unshift(node.consequent, loggerNode)]
    ELSE node

\* the tree after entry() was called on the node at `path`
RECURSIVE EntryAt(_, _)
EntryAt(node, path) ==
    IF path = <<>> THEN Entry(node)
    ELSE LET f == Head(path)[1]
             i == Head(path)[2]
             child == EntryAt(Child(node, Head(path)), Tail(path))
         IN  IF i = 0 THEN [node EXCEPT ![f] = child]
             ELSE IF f = "alternative" THEN [node EXCEPT !.alternative.items[i] = child]
             ELSE [node EXCEPT ![f][i] = child]

\* array.splice(i, 0, item)
InsertAt(array, i, item) ==
    SubSeq(array, 1, i) \o <<item>> \o SubSeq(array, i + 1, Len(array))

\* the statement lists of a node, by the field that holds them
ListFields(node) ==
    CASE node.type \in {"Program", "SubroutineStatement"} -> {"body"}
      [] node.type = "IfStatement" ->
            {"consequent"} \cup (IF node.alternative.type = "Array" THEN {"alternative"} ELSE {})
      [] OTHER -> {}

\* the tree after the item was spliced into the list f of the node at `path`
RECURSIVE SpliceAt(_, _, _, _, _)
SpliceAt(node, path, f, i, item) ==
    IF path = <<>> THEN
        IF f = "alternative"
        THEN [node EXCEPT !.alternative = Array(InsertAt(node.alternative.items, i, item))]
        ELSE [node EXCEPT ![f] = InsertAt(node[f], i, item)]
    ELSE LET g == Head(path)[1]
             k == Head(path)[2]
             child == SpliceAt(Child(node, Head(path)), Tail(path), f, i, item)
         IN  IF k = 0 THEN [node EXCEPT ![g] = child]
             ELSE IF g = "alternative" THEN [node EXCEPT !.alternative.items[k] = child]
             ELSE [node EXCEPT ![g][k] = child]

RECURSIVE NodePaths(_, _)
\* the paths of the nodes of the tree under `path`
NodePaths(root, path) ==
    LET slots == next(GetAt(root, path))
    IN  {path} \cup UNION {NodePaths(root, Append(path, slots[i])) : i \in 1..Len(slots)}

\* a statement built without location, as the instrumentation pass builds it
SyntheticLogger == AddStatement(NoLoc, variable("req"), StringLiteral("synthethic"))

(***************************************************************************)
(* The statement printers.  A document is flattened to the atoms of its    *)
(* text with NL for every line break it renders: a hardline, or the `line` *)
(* of a group that does not fit the print width.  The line counter is      *)
(* threaded through: a printer returns its document and the counter.       *)
(***************************************************************************)
Printed(doc, lineNum) == [doc |-> doc, lineNum |-> lineNum]

RECURSIVE printName(_)
\* Identifier.print, Member.print under neverBreak
printName(node) ==
    IF node.type = "Member"
    THEN printName(node.base) \o <<".", node.member.name>>
    ELSE <<node.name>>

\* the group of a set/add statement or of a conditional's test breaks when
\* its content does not fit
Fits(node) ==
    IF node.type = "StringLiteral" THEN node.value # LongText ELSE node.name # LongName

Hardlines(n) == [i \in 1..n |-> NL]

\* doc.pop()
Pop(doc) == IF doc = <<>> THEN <<>> ELSE SubSeq(doc, 1, Len(doc) - 1)

RECURSIVE printStatementsFrom(_, _, _, _), printNode(_, _)

\* the body of the for loop of printStatements, from statement i on
printStatementsFrom(stmts, i, lineNum, doc) ==
    IF i > Len(stmts) THEN Printed(Pop(doc), lineNum)
    ELSE LET stmt == stmts[i]
             jump == HasLoc(stmt) /\ stmt.loc.start.line > lineNum
             delta == IF jump THEN stmt.loc.start.line - lineNum ELSE 0
             r == printNode(stmt, IF jump THEN stmt.loc.start.line ELSE lineNum)
         IN  printStatementsFrom(stmts, i + 1, r.lineNum + 1,
                                 doc \o Hardlines(delta) \o r.doc \o <<NL>>)

printStatements(lineNum, stmts) == printStatementsFrom(stmts, 1, lineNum, <<>>)

\* the print method of each statement
printNode(node, lineNum) ==
    CASE node.type = "RestartStatement" -> Printed(<<"restart;">>, lineNum)
      [] node.type \in {"SetStatement", "AddStatement"} ->
            Printed(<<IF node.type = "SetStatement" THEN "set" ELSE "add">>
                        \o printName(node.left) \o <<node.operator>>
                        \o (IF Fits(node.right) THEN <<>> ELSE <<NL>>)
                        \o <<node.right.value, ";">>,
                    lineNum)
      [] node.type = "SubroutineStatement" ->
            LET body == printStatements(lineNum, node.body)
            IN  Printed(<<"sub", node.id.name, "{">> \o body.doc \o <<NL, "}">>,
                        body.lineNum)
      [] node.type = "IfStatement" ->
            LET brk == IF Fits(node.test) THEN <<>> ELSE <<NL>>
                consequent == printStatements(lineNum, node.consequent)
                doc == <<"if", "(">> \o brk \o <<node.test.name>> \o brk \o <<")", "{">>
                           \o consequent.doc \o <<NL, "}">>
            IN  IF node.alternative.type = "undefined"
                THEN Printed(doc, consequent.lineNum)
                ELSE IF node.alternative.type = "Array"
                THEN LET alt == printStatements(consequent.lineNum, node.alternative.items)
                     IN  Printed(doc \o <<"else", "{">> \o alt.doc \o <<NL, "}">>,
                                 alt.lineNum)
                ELSE LET alt == printNode(node.alternative, consequent.lineNum)
                     IN  Printed(doc \o <<"else">> \o alt.doc, alt.lineNum)

\* the line counter a print operation starts with: the first statement's
\* source line
InitialLineNum(program) ==
    IF program.body # <<>> /\ HasLoc(program.body[1])
    THEN program.body[1].loc.start.line ELSE 1

\* Program.print
printProgram(program) == printStatements(InitialLineNum(program), program.body).doc

(***************************************************************************)
(* Printing one node: the dispatch on the node's type and the printers of  *)
(* member chains and IP literals.  A document is the sequence of its parts *)
(* (texts, and Softline for a soft line break).                            *)
(***************************************************************************)
\* the keys of `map`: the node classes
ClassKinds ==
    {"Program", "BooleanLiteral", "StringLiteral", "MultilineLiteral", "DurationLiteral",
     "NumericLiteral", "Identifier", "Ip", "Member", "ValuePair", "BooleanExpression",
     "UnaryExpression", "FunCallExpression", "ConcatExpression", "BinaryExpression",
     "LogicalExpression", "ExpressionStatement", "IncludeStatement", "ImportStatement",
     "CallStatement", "DeclareStatement", "AddStatement", "SetStatement",
     "UnsetStatement", "ReturnStatement", "ErrorStatement", "RestartStatement",
     "SyntheticStatement", "LogStatement", "IfStatement", "SubroutineStatement",
     "AclStatement", "BackendDefinition", "BackendStatement", "TableDefinition",
     "TableStatement"}

\* the header-field reference of the declared expression variants
Header(name) == [type |-> "Header", name |-> name]

\* the node variants of the data model
DataModelKinds == ClassKinds \cup {"Header"}

\* the case labels of printNode's switch
SwitchCases == ClassKinds \cup {"DirectorStatement"}

\* printNode: the printer the switch selects for a type; the switch has no
\* default, so for any other type the function returns undefined
printNodeCase(type) ==
    IF type \in SwitchCases THEN "print" \o type ELSE "undefined"

Softline == "softline"
Doc(parts) == [type |-> "Doc", parts |-> parts]

\* shouldBreak of a level that decides by its own base alone
ShouldBreakOwnLevel(m, neverBreak, broken) == ~neverBreak /\ m.base.type = "Member"
\* shouldBreak of Member.print and printMember
ShouldBreak(m, neverBreak, broken) ==
    ~neverBreak /\ (m.base.type = "Member" \/ broken)

RECURSIVE MemberPrint(_, _, _)
\* Member.print(state, { neverBreak, broken }); Identifier.print takes no options
MemberPrint(m, neverBreak, broken) ==
    IF m.type = "Identifier" THEN <<m.name>>
    ELSE MemberPrint(m.base, neverBreak, ShouldBreak(m, neverBreak, broken))
            \o (IF ShouldBreak(m, neverBreak, broken) THEN <<Softline>> ELSE <<>>)
            \o <<".", m.member.name>>

RECURSIVE printMember(_, _, _)
\* printMember(node, state, { neverBreak, broken })
printMember(m, neverBreak, broken) ==
    IF m.type = "Identifier" THEN <<m.name>>
    ELSE printMember(m.base, neverBreak, ShouldBreak(m, neverBreak, broken))
            \o (IF ShouldBreak(m, neverBreak, broken) THEN <<Softline>> ELSE <<>>)
            \o <<".", m.member.name>>

\* an IP literal; cidr is optional
Ip(value, hasCidr, cidr) ==
    [type |-> "Ip", value |-> value, hasCidr |-> hasCidr, cidr |-> cidr]

\* the condition `cidr ? .. : ..`: undefined and 0 are falsy
CidrTruthy(ip) == ip.hasCidr /\ ip.cidr # 0

\* Ip.print and printIp
printIp(ip) ==
    IF CidrTruthy(ip) THEN <<"\"" \o ip.value \o "\"/" \o ToString(ip.cidr)>>
    ELSE <<"\"" \o ip.value \o "\"">>

\* a set or add statement whose right side is an identifier or a member chain
IsChainAssign(n) ==
    /\ n.type \in {"SetStatement", "AddStatement"}
    /\ "right" \in DOMAIN n /\ n.right.type \in {"Identifier", "Member"}

Keyword(n) == IF n.type = "SetStatement" THEN "set " ELSE "add "

\* SetStatement.print and AddStatement.print: both sides under neverBreak
AssignPrint(n) ==
    <<Keyword(n)>> \o MemberPrint(n.left, TRUE, FALSE) \o <<" ", n.operator, "line">>
        \o MemberPrint(n.right, TRUE, FALSE) \o <<";">>

\* the options printSetStatement and printAddStatement hand to the printer of
\* the right side: { neverBreak: true } and none
RightNeverBreak(n) == n.type = "SetStatement"

\* printSetStatement and printAddStatement
printAssign(n) ==
    <<Keyword(n)>> \o printMember(n.left, TRUE, FALSE) \o <<" ", n.operator, "line">>
        \o printMember(n.right, RightNeverBreak(n), FALSE) \o <<";">>

\* the document the selected printer returns for a node, undefined when the
\* switch selected none; the printers not modelled part by part return a
\* document of their own
printNodeDoc(n, neverBreak) ==
    IF printNodeCase(n.type) = "undefined" THEN Undefined
    ELSE CASE n.type \in LiteralTypes -> Doc(<<printLiteralNode(n)>>)
           [] n.type \in {"Identifier", "Member"} -> Doc(printMember(n, neverBreak, FALSE))
           [] n.type = "Ip" -> Doc(printIp(n))
           [] IsChainAssign(n) -> Doc(printAssign(n))
           [] n.type \in {"RestartStatement", "SetStatement", "AddStatement",
                          "SubroutineStatement", "IfStatement"} /\ "loc" \in DOMAIN n
                /\ ~IsChainAssign(n) ->
                 Doc(printNode(n, 1).doc)
           [] OTHER -> Doc(<<n.type>>)

\* the document the print method of a node's class returns
nodePrintDoc(n, neverBreak) ==
    CASE n.type \in LiteralTypes -> Doc(<<printLiteral(n)>>)
      [] n.type \in {"Identifier", "Member"} -> Doc(MemberPrint(n, neverBreak, FALSE))
      [] n.type = "Ip" -> Doc(printIp(n))
      [] IsChainAssign(n) -> Doc(AssignPrint(n))
      [] n.type \in {"RestartStatement", "SetStatement", "AddStatement",
                     "SubroutineStatement", "IfStatement"} /\ "loc" \in DOMAIN n
            /\ ~IsChainAssign(n) ->
            Doc(printNode(n, 1).doc)
      [] OTHER -> Doc(<<n.type>>)

RECURSIVE Chains(_)
\* the member chains with n accesses over the names a and b (no access: an
\* identifier)
Chains(n) ==
    IF n = 0 THEN {Identifier(x) : x \in {"a", "b"}}
    ELSE {Member(base, Identifier(x)) : base \in Chains(n - 1), x \in {"a", "b"}}

Subject(n, neverBreak) == [node |-> n, neverBreak |-> neverBreak]

\* the nodes handed to the printers: one node of every variant, the
\* conditionals with absent, block and chained alternative, member chains with
\* and without the never-break option, IP literals with and without suffix,
\* set and add statements with a member chain on their right side
Subjects ==
    {Subject([type |-> k], FALSE) :
        k \in DataModelKinds \ (LiteralTypes \cup {"Identifier", "Member", "Ip", "Header"})}
    \cup {Subject(Header("a"), FALSE)}
    \cup {Subject(Literal(t, "1"), FALSE) : t \in LiteralTypes}
    \cup {Subject(IfStatement(NoLoc, Identifier("a"), <<RestartStatement(NoLoc)>>, alt), FALSE) :
            alt \in {Undefined, Array(<<RestartStatement(NoLoc)>>),
                     IfStatement(NoLoc, Identifier("b"), <<>>, Undefined)}}
    \cup {Subject(c, nb) : c \in UNION {Chains(n) : n \in 0..MaxChain}, nb \in BOOLEAN}
    \cup {Subject(Ip("192.0.2.0", FALSE, 0), FALSE)}
    \cup {Subject(Ip("192.0.2.0", TRUE, c), FALSE) : c \in 0..MaxCidr}
    \cup {Subject(SetStatement(NoLoc, Identifier("x"), c), FALSE) :
            c \in UNION {Chains(n) : n \in 0..MaxChain}}
    \cup {Subject(AddStatement(NoLoc, Identifier("x"), c), FALSE) :
            c \in UNION {Chains(n) : n \in 0..MaxChain}}

Pending == [type |-> "pending"]

\* printNode(node, state, options) of the function printers
PrintNode ==
    /\ subject # Idle /\ rendering.doc = Pending
    /\ rendering' = [rendering EXCEPT
                         !.printer = printNodeCase(subject.node.type),
                         !.doc = printNodeDoc(subject.node, subject.neverBreak)]
    /\ UNCHANGED <<subject, litVars, exprVars, pipeVars, jobVars>>

\* node.print(state, options) of the node classes
NodePrint ==
    /\ subject # Idle /\ rendering.print = Pending
    /\ subject.node.type \in ClassKinds
    /\ rendering' = [rendering EXCEPT
                         !.print = nodePrintDoc(subject.node, subject.neverBreak)]
    /\ UNCHANGED <<subject, litVars, exprVars, pipeVars, jobVars>>

(***************************************************************************)
(* The statement parser, on the atoms of a text: it records for every      *)
(* statement the offset and line of its first and its last atom.  The      *)
(* right side of an assignment and the test of a conditional are one atom. *)
(***************************************************************************)
LineAt(text, i) == 1 + Cardinality({j \in 1..(i - 1) : text[j] = NL})

Lex(text) ==
    SelectSeq([i \in 1..Len(text) |->
                  [value |-> text[i], offset |-> i, line |-> LineAt(text, i)]],
              LAMBDA t : t.value # NL)

Span(toks, a, b) == Loc(toks[a].offset, toks[a].line, toks[b].offset, toks[b].line)
Parsed(node, nxt) == [node |-> node, next |-> nxt]

RECURSIVE parseTarget(_, _, _), parseStatement(_, _), parseStatements(_, _, _)

\* an identifier and the members chained to it with `.`
parseTarget(toks, k, base) ==
    IF k <= Len(toks) /\ toks[k].value = "."
    THEN parseTarget(toks, k + 2, Member(base, Identifier(toks[k + 1].value)))
    ELSE Parsed(base, k)

\* statements up to the closing brace or the end of the text
parseStatements(toks, k, body) ==
    IF k > Len(toks) \/ toks[k].value = "}" THEN Parsed(body, k)
    ELSE LET stmt == parseStatement(toks, k)
         IN  parseStatements(toks, stmt.next, Append(body, stmt.node))

parseStatement(toks, k) ==
    CASE toks[k].value = "restart;" -> Parsed(RestartStatement(Span(toks, k, k)), k + 1)
      [] toks[k].value \in {"set", "add"} ->
            LET left == parseTarget(toks, k + 2, Identifier(toks[k + 1].value))
                right == StringLiteral(toks[left.next + 1].value)
                loc == Span(toks, k, left.next + 2)
            IN  Parsed(IF toks[k].value = "set" THEN SetStatement(loc, left.node, right)
                       ELSE AddStatement(loc, left.node, right),
                       left.next + 3)
      [] toks[k].value = "sub" ->
            LET body == parseStatements(toks, k + 3, <<>>)
            IN  Parsed(SubroutineStatement(Span(toks, k, body.next),
                                           Identifier(toks[k + 1].value), body.node),
                       body.next + 1)
      [] toks[k].value = "if" ->
            LET test == Identifier(toks[k + 2].value)
                consequent == parseStatements(toks, k + 5, <<>>)
                e == consequent.next + 1
            IN  IF e > Len(toks) \/ toks[e].value # "else"
                THEN Parsed(IfStatement(Span(toks, k, consequent.next), test,
                                        consequent.node, Undefined), e)
                ELSE IF toks[e + 1].value = "if"
                THEN LET alt == parseStatement(toks, e + 1)
                     IN  Parsed(IfStatement(Span(toks, k, alt.next - 1), test,
                                            consequent.node, alt.node), alt.next)
                ELSE LET alt == parseStatements(toks, e + 2, <<>>)
                     IN  Parsed(IfStatement(Span(toks, k, alt.next), test,
                                            consequent.node, Array(alt.node)),
                                alt.next + 1)

\* parse(text)
parse(text) == Program(parseStatements(Lex(text), 1, <<>>).node)

(***************************************************************************)
(* The pipeline: source text, parse, the optional instrumentation walk,    *)
(* print, and the same text parsed and printed once more.                  *)
(***************************************************************************)
\* the statements a source text is made of: a one-line statement, one that
\* is too wide for one printed line, and one written on two source lines
SimpleTexts ==
    { <<"restart;">>,
      <<"set", "x", "=", LongText, ";">>,
      <<"set", "x", "=", NL, "\"a\"", ";">> }

RECURSIVE StatementRuns(_)
\* n statements: one of the above, then restart statements, each on the line
\* after the one before or after a blank line
StatementRuns(n) ==
    IF n = 1 THEN SimpleTexts
    ELSE {s \o Hardlines(g) \o <<"restart;">> : s \in StatementRuns(n - 1), g \in 1..2}

\* what stands between the braces of a subroutine: nothing, or up to MaxBody
\* statements, the first on the line of the brace or below it
BlockTexts ==
    {Hardlines(g) : g \in 0..1}
    \cup {Hardlines(open) \o run \o Hardlines(close) :
            open \in 0..2, close \in 1..2,
            run \in UNION {StatementRuns(n) : n \in 1..MaxBody}}

\* the same for the branches of a conditional, one statement per line
BranchTexts == {<<NL>>} \cup {<<NL>> \o s \o <<NL>> : s \in SimpleTexts}

SubTexts ==
    {<<"sub", id, "{">> \o b \o <<"}">> : id \in {"vcl_recv", "vcl_deliver"}, b \in BlockTexts}

IfHead(test, b) == <<"if", "(", test, ")", "{">> \o b \o <<"}">>

IfTexts ==
    LET heads == {IfHead(test, b) : test \in {"x", LongName}, b \in BranchTexts}
    IN  heads
        \cup {h \o <<"else", "{">> \o b \o <<"}">> : h \in heads, b \in BranchTexts}
        \cup {h \o <<"else">> \o IfHead("x", b) : h \in heads, b \in BranchTexts}

\* a source text: one statement, or one statement and a restart statement
\* after it, on the same line or up to MaxGap lines below
SourceTexts ==
    LET first == SimpleTexts \cup SubTexts \cup IfTexts
    IN  first \cup {s \o Hardlines(g) \o <<"restart;">> : s \in first, g \in 0..MaxGap}

\* parse(text) of a source text
Parse ==
    /\ pc = "source"
    /\ \E text \in SourceTexts :
           /\ source' = text
           /\ ast' = parse(text)
    /\ pc' = "parsed"
    /\ UNCHANGED <<walk, out, ast2, out2, litVars, exprVars, nodeVars, jobVars>>

\* traverse(ast, visitor) is called: the root is the first node to visit
BeginWalk ==
    /\ pc = "parsed"
    /\ walk' = [pending |-> <<<<>>>>, visited |-> <<>>]
    /\ pc' = "walking"
    /\ UNCHANGED <<source, ast, out, ast2, out2, litVars, exprVars, nodeVars, jobVars>>

\* the walk visits the next node: the entry callback is called on it, and
\* its children as next() gives them afterwards are the next to visit
Visit ==
    /\ pc = "walking" /\ walk.pending # <<>>
    /\ LET path == Head(walk.pending)
           tree == EntryAt(ast, path)
           slots == next(GetAt(tree, path))
           children == [i \in 1..Len(slots) |-> Append(path, slots[i])]
       IN  /\ ast' = tree
           /\ walk' = [pending |-> children \o Tail(walk.pending),
                       visited |-> Append(walk.visited, path)]
    /\ UNCHANGED <<source, out, ast2, out2, pc, litVars, exprVars, nodeVars, jobVars>>

\* no node is left to visit: traverse returns
EndWalk ==
    /\ pc = "walking" /\ walk.pending = <<>>
    /\ pc' = "walked"
    /\ UNCHANGED <<source, ast, walk, out, ast2, out2, litVars, exprVars, nodeVars, jobVars>>

\* a rewrite splices one statement without location into one statement list
\* of the tree, at any index of the list
Splice ==
    /\ pc = "parsed"
    /\ \E path \in NodePaths(ast, <<>>) :
         \E f \in ListFields(GetAt(ast, path)) :
           \E i \in 0..Len(Items(GetAt(ast, path), f)) :
               ast' = SpliceAt(ast, path, f, i, SyntheticLogger)
    /\ pc' = "spliced"
    /\ UNCHANGED <<source, walk, out, ast2, out2, litVars, exprVars, nodeVars, jobVars>>

\* print(ast), of the tree as parsed or as rewritten
PrintProgram ==
    /\ pc \in {"parsed", "walked", "spliced"}
    /\ out' = printProgram(ast)
    /\ pc' = "printed"
    /\ UNCHANGED <<source, ast, walk, ast2, out2, litVars, exprVars, nodeVars, jobVars>>

\* parse(print(ast))
Reparse ==
    /\ pc = "printed"
    /\ ast2' = parse(out)
    /\ pc' = "reparsed"
    /\ UNCHANGED <<source, ast, walk, out, out2, litVars, exprVars, nodeVars, jobVars>>

\* print(parse(print(ast)))
PrintAgain ==
    /\ pc = "reparsed"
    /\ out2' = printProgram(ast2)
    /\ pc' = "done"
    /\ UNCHANGED <<source, ast, walk, out, ast2, litVars, exprVars, nodeVars, jobVars>>

(***************************************************************************)
(* Two print operations on separate trees.  A step of an operation is one  *)
(* iteration of the loop of printStatements over the program's body; the   *)
(* steps of the two operations interleave in any order.                    *)
(***************************************************************************)
JobIds == {1, 2}

\* the programs printed: up to MaxBody statements
JobTexts == UNION {StatementRuns(n) : n \in 1..MaxBody}

\* a state object that all print operations would share
StateShared(k) == 1
\* the state object of print operation k: the one passed to its call
StateOf(k) == k

\* the two operations before their first step, each with its own counter
Jobs(a, b) ==
    [op |-> <<[stmts |-> a.body, i |-> 1, doc |-> <<>>, pc |-> "printing"],
              [stmts |-> b.body, i |-> 1, doc |-> <<>>, pc |-> "printing"]>>,
     lineNum |-> <<InitialLineNum(a), InitialLineNum(b)>>,
     steps |-> <<>>]

\* one iteration of `for (const stmt of stmts)` in operation k
PrintStep(k) ==
    /\ jobs # Idle
    /\ jobs.op[k].pc = "printing" /\ jobs.op[k].i <= Len(jobs.op[k].stmts)
    /\ LET job == jobs.op[k]
           r == printStatementsFrom(<<job.stmts[job.i]>>, 1, jobs.lineNum[StateOf(k)], <<>>)
       IN  jobs' = [jobs EXCEPT !.op[k].doc = job.doc \o r.doc \o <<NL>>,
                                !.op[k].i = job.i + 1,
                                !.lineNum[StateOf(k)] = r.lineNum,
                                !.steps = Append(jobs.steps, k)]
    /\ UNCHANGED <<litVars, exprVars, pipeVars, nodeVars>>

\* doc.pop() and the return of operation k
PrintEnd(k) ==
    /\ jobs # Idle
    /\ jobs.op[k].pc = "printing" /\ jobs.op[k].i > Len(jobs.op[k].stmts)
    /\ jobs' = [jobs EXCEPT !.op[k].doc = Pop(jobs.op[k].doc),
                            !.op[k].pc = "done",
                            !.steps = Append(jobs.steps, k)]
    /\ UNCHANGED <<litVars, exprVars, pipeVars, nodeVars>>

LitIdle == litToken = Idle /\ litResult = Idle /\ litPrinted = Idle

NodeIdle == subject = Idle /\ rendering = Idle

JobIdle == jobs = Idle

PipeIdle ==
    /\ source = <<>> /\ ast = Idle /\ walk = Idle /\ out = <<>> /\ ast2 = Idle /\ out2 = <<>>
    /\ pc = "idle"

ExprIdle ==
    /\ tokens = <<>> /\ parser = Idle /\ exprResult = Idle /\ exprLoc = Idle
    /\ printed = <<>> /\ reparsed = Idle

InitExpr ==
    /\ tokens \in SeqsUpTo(ExprAlphabet, MaxToks) \cup SeqsUpTo(OpAlphabet, MaxSrcLen)
    /\ parser = ParserStart
    /\ exprResult = [ok |-> FALSE, node |-> Null, cur |-> 0]
    /\ exprLoc = Idle
    /\ printed = <<>>
    /\ reparsed = Idle
    /\ LitIdle
    /\ PipeIdle
    /\ NodeIdle
    /\ JobIdle

NextExpr ==
    \/ ParseExprEnter
    \/ ConcatStep
    \/ ParseExprReturn
    \/ ParseExprThrow
    \/ PrintExpr
    \/ ReparseExpr

SpecExpr == InitExpr /\ [][NextExpr]_vars

\* expression trees as a rewrite may build them, from identifiers and the
\* binary and logical operators
RECURSIVE Trees(_)
Trees(d) ==
    IF d = 0 THEN {Identifier("x")}
    ELSE LET sub == Trees(d - 1)
         IN  sub \cup {OperatorNode(l, op, r) : l \in sub, op \in {"==", "&&", "||"}, r \in sub}

InitTree ==
    /\ tokens = <<>>
    /\ \E t \in Trees(MaxDepth) : exprResult = Ok(t, 0)
    /\ parser = [ParserStart EXCEPT !.pc = "done"]
    /\ exprLoc = Idle
    /\ printed = <<>>
    /\ reparsed = Idle
    /\ LitIdle
    /\ PipeIdle
    /\ NodeIdle
    /\ JobIdle

NextTree == PrintExpr \/ ReparseExpr

SpecTree == InitTree /\ [][NextTree]_vars

InitLit ==
    /\ litToken \in LitTokens
    /\ litResult = [type |-> "pending"]
    /\ litPrinted = Idle
    /\ ExprIdle
    /\ PipeIdle
    /\ NodeIdle
    /\ JobIdle

\* the parser hands one token to parseLiteral
ParseLiteral ==
    /\ litResult = [type |-> "pending"]
    /\ litResult' = parseLiteral(litToken)
    /\ UNCHANGED <<litToken, litPrinted, exprVars, pipeVars, nodeVars, jobVars>>

\* the literal node is printed
PrintLiteral ==
    /\ litResult # Idle /\ litResult.type \in LiteralTypes
    /\ litPrinted = Idle
    /\ litPrinted' = [text |-> printLiteral(litResult)]
    /\ UNCHANGED <<litToken, litResult, exprVars, pipeVars, nodeVars, jobVars>>

NextLit == ParseLiteral \/ PrintLiteral

SpecLit == InitLit /\ [][NextLit]_vars

InitPipe ==
    /\ source = <<>>
    /\ ast = Idle /\ walk = Idle /\ out = <<>> /\ ast2 = Idle /\ out2 = <<>>
    /\ pc = "source"
    /\ LitIdle
    /\ ExprIdle
    /\ NodeIdle
    /\ JobIdle

NextPipe ==
    \/ Parse
    \/ BeginWalk
    \/ Visit
    \/ EndWalk
    \/ PrintProgram
    \/ Reparse
    \/ PrintAgain

SpecPipe == InitPipe /\ [][NextPipe]_vars

\* the pipeline with a rewrite that splices one statement
NextSplice ==
    \/ Parse
    \/ Splice
    \/ PrintProgram
    \/ Reparse

SpecSplice == InitPipe /\ [][NextSplice]_vars

\* traverse is synchronous: once called it runs until it returns
SpecPipeFair == SpecPipe /\ WF_vars(Visit \/ EndWalk)

InitNode ==
    /\ subject \in Subjects
    /\ rendering = [printer |-> "pending", doc |-> Pending, print |-> Pending]
    /\ LitIdle
    /\ ExprIdle
    /\ PipeIdle
    /\ JobIdle

NextNode == PrintNode \/ NodePrint

SpecNode == InitNode /\ [][NextNode]_vars

InitPrint ==
    /\ \E a, b \in JobTexts : jobs = Jobs(parse(a), parse(b))
    /\ LitIdle
    /\ ExprIdle
    /\ PipeIdle
    /\ NodeIdle

NextPrint == \E k \in JobIds : PrintStep(k) \/ PrintEnd(k)

SpecPrint == InitPrint /\ [][NextPrint]_vars

(***************************************************************************)
(* Properties of parseLiteral                                              *)
(***************************************************************************)
\* C2: a numeric token whose text ends in a unit suffix becomes a
\* DurationLiteral with the text unchanged; otherwise a text of more than one
\* character with a leading 0 raises a SyntaxError; the single digit 0 and
\* every other valid number without leading zero becomes a NumericLiteral with
\* the text unchanged.
NumericClassification ==
    (litToken # Idle /\ litResult.type # "pending" /\ litToken.type = "numeric") =>
        LET v == litToken.value
        IN  /\ EndsInUnit(v) => litResult = [type |-> "DurationLiteral", value |-> v]
            /\ (~EndsInUnit(v) /\ Len(v) > 1 /\ v[1] = "0") =>
                   litResult.type = "SyntaxError"
            /\ (~EndsInUnit(v) /\ ~NumberIsNaN(v) /\ (Len(v) = 1 \/ v[1] # "0")) =>
                   litResult = [type |-> "NumericLiteral", value |-> v]

\* the token 0 has been classified as a NumericLiteral
NumericClassificationWitness ==
    /\ litToken = [type |-> "numeric", value |-> <<"0">>]
    /\ litResult = [type |-> "NumericLiteral", value |-> <<"0">>]

\* a numeric text whose integer part is the single digit 0, with a fraction
ZeroWithFraction(v) ==
    /\ Len(v) >= 3 /\ v[1] = "0" /\ v[2] = "."
    /\ \A i \in 3..Len(v) : v[i] \in Digits

\* C26: a numeric token without unit suffix that is 0 followed by a fraction,
\* such as 0.5, is accepted as a NumericLiteral with its text unchanged.
ZeroFractionAccepted ==
    (litToken # Idle /\ litResult.type # "pending" /\ litToken.type = "numeric"
        /\ ZeroWithFraction(litToken.value)) =>
        litResult = [type |-> "NumericLiteral", value |-> litToken.value]

\* C11: the literal node holds the token text unchanged and both printers
\* emit exactly that text: print(parseLiteral(t)) = t for every accepted t.
LiteralRoundTrip ==
    (litToken # Idle /\ litPrinted # Idle) =>
        /\ litResult.value = litToken.value
        /\ litPrinted.text = litToken.value
        /\ printLiteralNode(litResult) = litToken.value

\* the string token "k" (with its quotes) has been parsed and printed
LiteralRoundTripWitness ==
    /\ litToken = [type |-> "string", value |-> <<"q", "k", "q">>]
    /\ litResult.type = "StringLiteral"
    /\ litPrinted = [text |-> <<"q", "k", "q">>]

(***************************************************************************)
(* Properties of parseExpr and of the expression round trip                *)
(***************************************************************************)
\* the tokens a tree was parsed from, without the + that joined members
RECURSIVE Unparse(_)
RECURSIVE UnparseAll(_)
UnparseAll(nodes) ==
    IF nodes = <<>> THEN <<>> ELSE Unparse(Head(nodes)) \o UnparseAll(Tail(nodes))
Unparse(node) ==
    CASE node.type = "StringLiteral" -> <<Tok("string", node.value)>>
      [] node.type = "Identifier" -> <<Tok("ident", node.name)>>
      [] node.type = "BooleanExpression" -> <<LParen>> \o Unparse(node.body) \o <<RParen>>
      [] node.type = "ConcatExpression" -> UnparseAll(node.body)
      [] node.type \in {"BinaryExpression", "LogicalExpression"} ->
            Unparse(node.left) \o <<Tok("operator", node.operator)>> \o Unparse(node.right)

\* every ConcatExpression of the tree has at least two members
RECURSIVE ConcatsHaveTwo(_)
ConcatsHaveTwo(node) ==
    CASE node.type = "BooleanExpression" -> ConcatsHaveTwo(node.body)
      [] node.type = "ConcatExpression" ->
            Len(node.body) >= 2 /\ \A i \in 1..Len(node.body) : ConcatsHaveTwo(node.body[i])
      [] node.type \in {"BinaryExpression", "LogicalExpression"} ->
            ConcatsHaveTwo(node.left) /\ ConcatsHaveTwo(node.right)
      [] OTHER -> TRUE

NotPlus(t) == t # Plus

\* C1: parseExpr returns a ConcatExpression iff at least two members were
\* accumulated; its body is then the accumulated expressions in source order
\* (the consumed tokens without the + tokens), the first expression itself is
\* returned otherwise, and no ConcatExpression has fewer than two members.
ConcatIffTwoMembers ==
    (parser # Idle /\ parser.pc = "done" /\ exprResult.ok /\ tokens # <<>>) =>
        /\ exprResult.node.type = "ConcatExpression" <=> Len(parser.buf) >= 2
        /\ Len(parser.buf) >= 2 => exprResult.node.body = parser.buf
        /\ Len(parser.buf) = 1 => exprResult.node = parser.buf[1]
        /\ ConcatsHaveTwo(exprResult.node)
        /\ Unparse(exprResult.node)
              = SelectSeq(SubSeq(tokens, 1, exprResult.cur), NotPlus)

\* "a" + "a" ; has been parsed to one concatenation of two members
ConcatIffTwoMembersWitness ==
    /\ tokens = <<StrA, Plus, StrA, Semi>>
    /\ parser # Idle /\ parser.pc = "done"
    /\ exprResult = Ok(ConcatExpression(<<Literal("StringLiteral", "\"a\""),
                                          Literal("StringLiteral", "\"a\"")>>), 3)

\* C8: once the first expression has been parsed, parseExpr returns normally
\* whatever follows it.
NoErrorAfterFirstExpression ==
    (parser # Idle /\ parser.pc = "done" /\ Len(parser.buf) >= 1) => exprResult.ok

\* C3: the printed text of a parsed expression parses again to the same tree.
RoundTripSameTree ==
    (parser # Idle /\ parser.pc = "reparsed" /\ tokens # <<>>) =>
        reparsed.ok /\ reparsed.node = exprResult.node

\* the tree without its grouping nodes: the operator associations alone
RECURSIVE Associations(_)
Associations(node) ==
    CASE node.type = "BooleanExpression" -> Associations(node.body)
      [] node.type \in {"BinaryExpression", "LogicalExpression"} ->
            [node EXCEPT !.left = Associations(node.left),
                         !.right = Associations(node.right)]
      [] OTHER -> node

\* C5: for every tree of binary and logical nodes, the printed text parses to
\* a tree with the same operator associations.
PrecedencePreserved ==
    (parser # Idle /\ parser.pc = "reparsed" /\ tokens = <<>>) =>
        reparsed.ok /\ Associations(reparsed.node) = Associations(exprResult.node)

(***************************************************************************)
(* Properties of the parentheses of the expression printers                *)
(***************************************************************************)
PrintedTree ==
    parser # Idle /\ parser.pc \in {"printed", "reparsed"} /\ tokens = <<>>

RECURSIVE OnlyOfType(_, _)
\* every operator node of the tree has the given type
OnlyOfType(node, type) ==
    node.type \in {"BinaryExpression", "LogicalExpression"} =>
        /\ node.type = type
        /\ OnlyOfType(node.left, type) /\ OnlyOfType(node.right, type)

OpenParens(toks) == Cardinality({i \in 1..Len(toks) : toks[i] = LParen})

AndUnderOr(node, operand) ==
    operand.type = "LogicalExpression" /\ operand.operator = "&&" /\ node.operator = "||"

RECURSIVE AndsUnderOr(_)
\* the number of operands of the tree that are an && directly under an ||
AndsUnderOr(node) ==
    IF node.type # "LogicalExpression" THEN 0
    ELSE (IF AndUnderOr(node, node.left) THEN 1 ELSE 0)
            + (IF AndUnderOr(node, node.right) THEN 1 ELSE 0)
            + AndsUnderOr(node.left) + AndsUnderOr(node.right)

\* the text of an operand, in parentheses when wrapped
OperandText(operand, wrapped) ==
    IF wrapped THEN <<LParen>> \o printExpr(operand) \o <<RParen>>
    ELSE printExpr(operand)

\* C16: a LogicalExpression prints an operand in parentheses iff the operand
\* is an && LogicalExpression and the parent is ||, left and right alike; in a
\* tree of logical nodes the parentheses are as many as such operands.
LogicalParens ==
    (PrintedTree /\ exprResult.node.type = "LogicalExpression") =>
        LET node == exprResult.node
        IN  /\ printed = OperandText(node.left, AndUnderOr(node, node.left))
                            \o <<Tok("operator", node.operator)>>
                            \o OperandText(node.right, AndUnderOr(node, node.right))
            /\ OnlyOfType(node, "LogicalExpression") =>
                    OpenParens(printed) = AndsUnderOr(node)

LogicalParensWitness ==
    /\ PrintedTree
    /\ exprResult.node =
          LogicalExpression(LogicalExpression(Identifier("x"), "&&", Identifier("x")), "||",
                            LogicalExpression(Identifier("x"), "&&", Identifier("x")))
    /\ OpenParens(printed) = 2

RECURSIVE BinaryLefts(_)
\* the number of binary nodes of the tree whose left operand is binary
BinaryLefts(node) ==
    IF node.type # "BinaryExpression" THEN 0
    ELSE (IF node.left.type = "BinaryExpression" THEN 1 ELSE 0)
            + BinaryLefts(node.left) + BinaryLefts(node.right)

\* C17: a BinaryExpression prints its left operand in parentheses iff the
\* operand is a BinaryExpression, and its right operand never; in a tree of
\* binary nodes the parentheses are as many as the binary left operands.
BinaryParens ==
    (PrintedTree /\ exprResult.node.type = "BinaryExpression") =>
        LET node == exprResult.node
        IN  /\ printed = OperandText(node.left, node.left.type = "BinaryExpression")
                            \o <<Tok("operator", node.operator)>>
                            \o OperandText(node.right, FALSE)
            /\ OnlyOfType(node, "BinaryExpression") =>
                    OpenParens(printed) = BinaryLefts(node)

BinaryParensWitness ==
    /\ PrintedTree
    /\ exprResult.node =
          BinaryExpression(BinaryExpression(Identifier("x"), "==", Identifier("x")), "==",
                           BinaryExpression(Identifier("x"), "==", Identifier("x")))
    /\ OpenParens(printed) = 1

(***************************************************************************)
(* Properties of the cursor of parseExpr                                   *)
(***************************************************************************)
Returned == parser # Idle /\ parser.pc = "done" /\ exprResult.ok /\ tokens # <<>>

\* on return the cursor is the saved one, the tokens before it are the
\* members and the + between them, and the token before it ends a member
CursorAfterMembers ==
    Returned =>
        /\ parser.cur = parser.backup /\ exprResult.cur = parser.cur
        /\ parser.cur \in 1..Len(tokens)
        /\ tokens[parser.cur] \notin {Plus, Semi}
        /\ UnparseAll(parser.buf) = SelectSeq(SubSeq(tokens, 1, parser.cur), NotPlus)

\* an iteration that sees `;` leaves the loop and accumulates nothing
SemiEndsLoop ==
    (parser # Idle /\ parser.pc = "loop" /\ parser.nextToken # 0
        /\ tokens[parser.nextToken] = Semi /\ parser' # parser) =>
            /\ parser'.pc = "break"
            /\ parser'.buf = parser.buf /\ parser'.backup = parser.backup

\* C13: however the loop ends, parseExpr returns with the cursor immediately
\* after the last token of the last accumulated expression (a `;`, a dangling
\* `+` and the tokens of a failed attempt are left unconsumed), and a `;` ends
\* the loop without a parse attempt.
CursorPostcondition == []CursorAfterMembers /\ [][SemiEndsLoop]_vars

\* after "a" + ; the attempt on `;` failed and the cursor is back after "a"
CursorPostconditionWitness ==
    /\ tokens = <<StrA, Plus, Semi>>
    /\ parser # Idle /\ parser.pc = "done"
    /\ parser.cur = 1 /\ parser.backup = 1
    /\ exprResult = Ok(Literal("StringLiteral", "\"a\""), 1)

\* C22: the location of a ConcatExpression built by parseExpr starts at the
\* start of its first member, the first token of the call, and ends at the
\* end of its last accumulated member.
ConcatLocSpansMembers ==
    (Returned /\ exprResult.node.type = "ConcatExpression") =>
        /\ exprLoc.finished
        /\ exprLoc.start = 1
        /\ exprLoc.end = exprResult.cur

\* the saved cursor never passes the end of the tokens
BackupInRange ==
    (parser # Idle /\ tokens # <<>>) => parser.backup \in 0..Len(tokens)

\* an iteration leaves the loop or moves the saved cursor forward
IterationAdvances ==
    (parser # Idle /\ parser.pc = "loop" /\ parser' # parser) =>
        \/ parser'.pc # "loop"
        \/ parser'.pc = "loop" /\ parser'.backup > parser.backup
                /\ Len(parser'.buf) = Len(parser.buf) + 1

\* after a failed attempt nothing but the return follows
FailedAttemptEndsCall ==
    (parser # Idle /\ parser.pc \in {"break", "throw"} /\ parser' # parser) =>
        parser'.pc = "done" /\ parser'.buf = parser.buf

\* C14: every iteration of the loop leaves it or advances the saved cursor
\* by at least one token, the saved cursor never passes the end of the
\* tokens (so the iterations are at most as many as the tokens), and a failed
\* attempt is followed by the return alone: it is the only one of the call
\* and is not retried.
ParseExprTerminates ==
    []BackupInRange /\ [][IterationAdvances /\ FailedAttemptEndsCall]_vars

\* "a" "a" ( : two members were accumulated, the attempt on ( failed once
ParseExprTerminatesWitness ==
    /\ tokens = <<StrA, StrA, LParen>>
    /\ parser # Idle /\ parser.pc = "break"
    /\ parser.backup = 2 /\ Len(parser.buf) = 2 /\ parser.cur = 3

(***************************************************************************)
(* Properties of the traversal and of the statement printer                *)
(***************************************************************************)
Seq1(n, f) == [i \in 1..n |-> <<f, i>>]

\* the child slots of a node as the data model lists them: fields in order,
\* the elements of a list in list order
Slots(node) ==
    CASE node.type = "Program" -> Seq1(Len(node.body), "body")
      [] node.type = "SubroutineStatement" -> <<<<"id", 0>>>> \o Seq1(Len(node.body), "body")
      [] node.type = "IfStatement" ->
            <<<<"test", 0>>>> \o Seq1(Len(node.consequent), "consequent")
                \o (IF node.alternative.type = "IfStatement" THEN <<<<"alternative", 0>>>>
                    ELSE IF node.alternative.type = "Array"
                    THEN Seq1(Len(node.alternative.items), "alternative")
                    ELSE <<>>)
      [] node.type \in {"SetStatement", "AddStatement"} -> <<<<"left", 0>>, <<"right", 0>>>>
      [] node.type = "Member" -> <<<<"base", 0>>, <<"member", 0>>>>
      [] OTHER -> <<>>

RECURSIVE PreOrder(_, _), PreOrderAll(_, _, _)
\* the paths of the nodes of the tree under `path`, parents before children
PreOrder(root, path) == <<path>> \o PreOrderAll(root, path, Slots(GetAt(root, path)))
PreOrderAll(root, path, slots) ==
    IF slots = <<>> THEN <<>>
    ELSE PreOrder(root, Append(path, Head(slots))) \o PreOrderAll(root, path, Tail(slots))

\* the fields that hold no child: the type tag, the location, the scalars
ScalarFields == {"type", "loc", "operator", "name", "value"}

\* next() of one node gives its child slots as the data model lists them,
\* each once, none of them a field without a child or an absent alternative
NextIsChildrenOf(node) ==
    LET s == next(node)
    IN  /\ s = Slots(node)
        /\ \A i, j \in 1..Len(s) : s[i] = s[j] => i = j
        /\ \A i \in 1..Len(s) :
               /\ s[i][1] \notin ScalarFields
               /\ Child(node, s[i]).type \notin {"undefined", "Array"}

OneInjectedAtHead(list) ==
    /\ Len(list) >= 1 /\ ~HasLoc(list[1])
    /\ \A i \in 2..Len(list) : HasLoc(list[i])

\* the subroutine body and the consequent of the node, if it has one
EntryListsInstrumented(node) ==
    /\ node.type = "SubroutineStatement" => OneInjectedAtHead(node.body)
    /\ node.type = "IfStatement" => OneInjectedAtHead(node.consequent)

\* the else block of the node, if it has one
ElseBlockInstrumented(node) ==
    (node.type = "IfStatement" /\ node.alternative.type = "Array") =>
        OneInjectedAtHead(node.alternative.items)

\* C19: after the instrumentation pass every subroutine body, every
\* consequent of an if or a chained else-if, and every terminal else block
\* begins with exactly one injected statement and holds no second one.
EveryBranchInstrumented ==
    pc = "walked" =>
        LET paths == PreOrder(ast, <<>>)
        IN  \A k \in 1..Len(paths) :
               /\ EntryListsInstrumented(GetAt(ast, paths[k]))
               /\ ElseBlockInstrumented(GetAt(ast, paths[k]))

IsStatement(node) ==
    node.type \in {"RestartStatement", "SetStatement", "AddStatement",
                   "SubroutineStatement", "IfStatement"}

\* the paths of the statements of a tree, in pre-order
StatementPaths(root) ==
    SelectSeq(PreOrder(root, <<>>), LAMBDA q : IsStatement(GetAt(root, q)))

Range(s) == {s[i] : i \in 1..Len(s)}

IsPrefixOf(s, t) == Len(s) <= Len(t) /\ SubSeq(t, 1, Len(s)) = s

Last(s) == s[Len(s)]
\* the path of the statement before the one at q in the same list
Before(q) == [q EXCEPT ![Len(q)] = <<Last(q)[1], Last(q)[2] - 1>>]
After(q) == [q EXCEPT ![Len(q)] = <<Last(q)[1], Last(q)[2] + 1>>]
HasBefore(q) == q # <<>> /\ Last(q)[2] > 1

IndexIn(s, x) == CHOOSE i \in 1..Len(s) : s[i] = x

WalkStarted == pc \in {"walking", "walked"} \/ (pc \in {"printed", "reparsed", "done"} /\ walk # Idle)

\* the visits so far are the first nodes of the tree in pre-order, each once;
\* when the walk has returned they are all its nodes, the inserted ones
\* included, and in every list the statement after an inserted head is the
\* next statement visited
WalkInv ==
    WalkStarted =>
        /\ \A i, j \in 1..Len(walk.visited) :
               walk.visited[i] = walk.visited[j] => i = j
        /\ pc = "walking" => IsPrefixOf(walk.visited, PreOrder(ast, <<>>))
        /\ pc # "walking" =>
              /\ walk.visited = PreOrder(ast, <<>>)
              /\ LET stmts == SelectSeq(walk.visited, LAMBDA q : IsStatement(GetAt(ast, q)))
                 IN  \A k \in 1..Len(stmts) :
                        (~HasLoc(GetAt(ast, stmts[k])) /\ After(stmts[k]) \in Range(stmts)) =>
                            /\ Last(stmts[k])[2] = 1
                            /\ stmts[k + 1] = After(stmts[k])
                            /\ HasLoc(GetAt(ast, stmts[k + 1]))

\* C7: a statement that the entry call inserts at the head of a list is
\* visited exactly once, every original statement is visited exactly once,
\* the original first one right after the inserted one, no node is visited
\* twice, and the walk terminates.
WalkVisitsEachOnce == []WalkInv /\ ((pc = "walking") ~> (pc = "walked"))

\* the walk over `sub vcl_recv { restart; }` has returned: the inserted add
\* statement was visited before the restart statement
WalkVisitsEachOnceWitness ==
    /\ pc = "walked"
    /\ source = <<"sub", "vcl_recv", "{", NL, "restart;", NL, "}">>
    /\ Len(ast.body[1].body) = 2
    /\ ast.body[1].body[1].type = "AddStatement"
    /\ IndexIn(walk.visited, <<<<"body", 1>>, <<"body", 1>>>>) + 7
           = IndexIn(walk.visited, <<<<"body", 1>>, <<"body", 2>>>>)

RECURSIVE Unloc(_), UnlocAll(_)
UnlocAll(nodes) == [i \in 1..Len(nodes) |-> Unloc(nodes[i])]
\* the tree without its locations
Unloc(node) ==
    CASE node.type = "Program" -> [node EXCEPT !.body = UnlocAll(node.body)]
      [] node.type = "SubroutineStatement" ->
            [node EXCEPT !.loc = NoLoc, !.body = UnlocAll(node.body)]
      [] node.type = "IfStatement" ->
            [node EXCEPT !.loc = NoLoc, !.consequent = UnlocAll(node.consequent),
                         !.alternative =
                             IF node.alternative.type = "Array"
                             THEN Array(UnlocAll(node.alternative.items))
                             ELSE Unloc(node.alternative)]
      [] node.type \in {"RestartStatement", "SetStatement", "AddStatement"} ->
            [node EXCEPT !.loc = NoLoc]
      [] OTHER -> node

RECURSIVE Originals(_)
OriginalsOf(nodes) ==
    LET kept == SelectSeq(nodes, HasLoc) IN [i \in 1..Len(kept) |-> Originals(kept[i])]
\* the tree without the statements that carry no location
Originals(node) ==
    CASE node.type = "Program" -> [node EXCEPT !.body = OriginalsOf(node.body)]
      [] node.type = "SubroutineStatement" -> [node EXCEPT !.body = OriginalsOf(node.body)]
      [] node.type = "IfStatement" ->
            [node EXCEPT !.consequent = OriginalsOf(node.consequent),
                         !.alternative =
                             IF node.alternative.type = "Array"
                             THEN Array(OriginalsOf(node.alternative.items))
                             ELSE Originals(node.alternative)]
      [] OTHER -> node

Walked == pc \in {"parsed", "walking", "walked"}
Reprinted == pc \in {"reparsed", "done"}

\* C10: the printed text holds the rendering of every statement of every
\* list exactly once and in list order, whatever the length of the list, and
\* the instrumentation pass only puts statements at the head of a list: the
\* original statements stay as they were parsed, in their order.
StatementOrderKept ==
    /\ Reprinted => Unloc(ast2) = Unloc(ast)
    /\ Walked => Originals(ast) = parse(source)
    /\ Walked => \A q \in Range(StatementPaths(ast)) :
                   ~HasLoc(GetAt(ast, q)) => Last(q)[2] = 1

\* an instrumented subroutine with an empty body, followed by a statement,
\* has been printed
StatementOrderKeptWitness ==
    /\ pc = "reparsed" /\ walk # Idle
    /\ source = <<"sub", "vcl_deliver", "{", NL, "}", NL, "restart;">>
    /\ out = <<"sub", "vcl_deliver", "{", "set", "resp", ".", "http", ".", "Branch-Log",
               "=", "std.collect(std)", ";", NL, "}", NL, "restart;">>

\* C4: printing the parse of a printed text gives that text again.
PrintIdempotent == pc = "done" => out2 = out

Max(a, b) == IF a > b THEN a ELSE b
\* the blank lines between statement a and statement b after it
BlankLines(a, b) == Max(0, b.loc.start.line - a.loc.end.line - 1)

\* C6: between two consecutive statements that carry locations the printed
\* text has as many blank lines as the source has.
BlankLinesKept ==
    (Reprinted /\ Unloc(ast2) = Unloc(ast)) =>
        \A q \in Range(StatementPaths(ast)) :
            (HasBefore(q) /\ HasLoc(GetAt(ast, q)) /\ HasLoc(GetAt(ast, Before(q)))) =>
                BlankLines(GetAt(ast2, Before(q)), GetAt(ast2, q))
                    = BlankLines(GetAt(ast, Before(q)), GetAt(ast, q))

\* C9: a statement without location is printed on the line after what
\* precedes it: one line break before it and no blank line.
LocationlessOnNextLine ==
    (Reprinted /\ Unloc(ast2) = Unloc(ast)) =>
        \A q \in Range(StatementPaths(ast)) :
            LET at == GetAt(ast2, q).loc.start.offset
            IN  (~HasLoc(GetAt(ast, q)) /\ at > 1) =>
                    /\ out[at - 1] = NL
                    /\ at > 2 => out[at - 2] # NL

\* the program was printed as parsed, without a rewrite before
PrintedAsParsed == pc \in {"printed", "reparsed", "done"} /\ walk = Idle

\* C23: in the rendering of every non-empty block body the first statement
\* starts on the line after the opening brace, whatever line it was written
\* on: the brace is followed by one line break and then by the statement.
FirstStatementBelowBrace ==
    PrintedAsParsed =>
        \A i \in 1..(Len(out) - 2) :
            (out[i] = "{" /\ <<out[i + 1], out[i + 2]>> # <<NL, "}">>) =>
                out[i + 1] = NL /\ out[i + 2] # NL

\* the index of the nearest statement with a location before the one at q in
\* the same list, 0 if there is none
PrevOriginal(tree, q) ==
    IF q = <<>> THEN 0
    ELSE LET found == {j \in 1..(Last(q)[2] - 1) :
                          HasLoc(GetAt(tree, [q EXCEPT ![Len(q)] = <<Last(q)[1], j>>]))}
         IN  IF found = {} THEN 0 ELSE CHOOSE j \in found : \A k \in found : k <= j

\* the empty lines of the text between the offsets a and b
EmptyLines(text, a, b) ==
    Cardinality({k \in (a + 1)..(b - 1) : text[k] = NL /\ text[k - 1] = NL})

\* the path of the statement at index i of the list that holds the one at q
Sibling(q, i) == [q EXCEPT ![Len(q)] = <<Last(q)[1], i>>]

\* for every pair of neighbouring statements with location in the list that
\* holds the statement at q, in list order, the empty lines the text has
\* between them; `re` is the tree parsed from the text
RenderedGaps(tree, re, text, q) ==
    LET list == Items(GetAt(tree, SubSeq(q, 1, Len(q) - 1)), Last(q)[1])
        is == SelectSeq([i \in 1..Len(list) |-> i],
                        LAMBDA i : HasLoc(list[i]) /\ PrevOriginal(tree, Sibling(q, i)) # 0)
    IN  [k \in 1..Len(is) |->
            EmptyLines(text,
                       GetAt(re, Sibling(q, PrevOriginal(tree, Sibling(q, is[k])))).loc.end.offset,
                       GetAt(re, Sibling(q, is[k])).loc.start.offset)]

Spliced == pc = "reparsed" /\ walk = Idle /\ ast # parse(source)

\* the path of the spliced statement
SplicedAt == CHOOSE q \in Range(StatementPaths(ast)) : ~HasLoc(GetAt(ast, q))

\* C24: a statement without location spliced into a statement list, at any
\* index, leaves between every two neighbouring original statements of that
\* list the blank lines the rendering has between them without it.
SpliceKeepsBlankLines ==
    (Spliced /\ Unloc(ast2) = Unloc(ast)) =>
        LET text == printProgram(parse(source))
        IN  RenderedGaps(ast, ast2, out, SplicedAt)
                = RenderedGaps(parse(source), parse(text), text, SplicedAt)

(***************************************************************************)
(* Properties of the printers of single nodes                              *)
(***************************************************************************)
Rendered == subject # Idle /\ rendering.doc # Pending

\* C12: for every node variant of the data model printNode selects a printer
\* and returns a document.
PrinterTotal ==
    Rendered => rendering.printer # "undefined" /\ rendering.doc # Undefined

RECURSIVE Accesses(_)
\* the number of property accesses of a member chain
Accesses(m) == IF m.type = "Member" THEN 1 + Accesses(m.base) ELSE 0

\* the positions of a part in the parts of a document
Positions(d, part) == {i \in 1..Len(d.parts) : d.parts[i] = part}

\* every property of the chain is preceded by a soft break (breaks) or none is
BreaksAtEveryLevel(d, m, breaks) ==
    /\ Cardinality(Positions(d, ".")) = Accesses(m)
    /\ \A i \in Positions(d, ".") : (i > 1 /\ d.parts[i - 1] = Softline) <=> breaks
    /\ Cardinality(Positions(d, Softline)) = (IF breaks THEN Accesses(m) ELSE 0)

ChainSubject == subject # Idle /\ subject.node.type = "Member"

\* C15: all levels of a member chain take one break decision: a soft break
\* before every property when the chain has two or more accesses and
\* never-break is off, none for a single access, none with never-break; by
\* Member.print and by printMember alike.
MemberChainBreaks ==
    ChainSubject =>
        \A d \in {rendering.doc, rendering.print} \ {Pending} :
            BreaksAtEveryLevel(d, subject.node,
                               ~subject.neverBreak /\ Accesses(subject.node) >= 2)

MemberChainBreaksWitness ==
    /\ ChainSubject /\ ~subject.neverBreak /\ Accesses(subject.node) = 3
    /\ rendering.doc # Pending /\ rendering.print # Pending
    /\ rendering.doc = rendering.print
    /\ Cardinality(Positions(rendering.print, Softline)) = 3

IpSubject == subject # Idle /\ subject.node.type = "Ip"

\* the quoted value, then "/" and the suffix when the literal carries one
IpText(ip) ==
    IF ip.hasCidr THEN "\"" \o ip.value \o "\"/" \o ToString(ip.cidr)
    ELSE "\"" \o ip.value \o "\""

\* C20: an IP literal with a CIDR suffix prints as the quoted value, "/" and
\* the suffix, for every suffix, 0 included; without one as the quoted value.
IpSuffixPrinted ==
    IpSubject =>
        \A d \in {rendering.doc, rendering.print} \ {Pending} :
            d.parts = <<IpText(subject.node)>>

BothPrinted == subject # Idle /\ rendering.doc # Pending /\ rendering.print # Pending

\* C25: the print method of a node's class and printNode return the same
\* document for the same node, for every node kind both support; the right
\* side of an add statement is printed as the right side of a set statement.
PrintersAgree == BothPrinted => rendering.doc = rendering.print

(***************************************************************************)
(* Properties of print operations running side by side                     *)
(***************************************************************************)
\* a finished operation has the document it produces when it runs alone, and
\* two finished operations on equal trees have the same text
SameAsAlone ==
    /\ \A k \in JobIds :
           jobs.op[k].pc = "done" => jobs.op[k].doc = printProgram(Program(jobs.op[k].stmts))
    /\ (jobs.op[1].pc = "done" /\ jobs.op[2].pc = "done"
            /\ jobs.op[1].stmts = jobs.op[2].stmts) => jobs.op[1].doc = jobs.op[2].doc

\* a step of one operation leaves the other operation and its counter as
\* they are
OwnStateOnly ==
    \A k \in JobIds :
        jobs'.op[k] # jobs.op[k] =>
            \A j \in JobIds \ {k} :
                jobs'.op[j] = jobs.op[j] /\ jobs'.lineNum[j] = jobs.lineNum[j]

\* C21: print operations are independent: with the steps of two operations
\* on separate trees interleaved in any order, each touches its own line
\* counter and document only and ends with the document it produces alone,
\* and the same tree printed twice gives the same text.
PrintsIndependent == []SameAsAlone /\ [][OwnStateOnly]_vars

\* two programs with a blank line each have been printed with their steps
\* alternating
PrintsIndependentWitness ==
    /\ jobs.op[1].pc = "done" /\ jobs.op[2].pc = "done"
    /\ jobs.steps = <<1, 2, 1, 2, 2, 1>>
    /\ jobs.op[1].doc = <<"restart;", NL, NL, "restart;">>
    /\ jobs.op[2].doc = <<"set", "x", "=", NL, LongText, ";", NL, NL, "restart;">>

====
